---------------------------- MODULE Spec2Model ----------------------------
(***************************************************************************)
(* Library application (library_app): the Book / User / Loan tables, the   *)
(* borrow_book and return_book views, and the user_recommendations view    *)
(* with its taste profile, priority_score annotation, ordering and         *)
(* sparse-fallback blending.                                               *)
(*                                                                         *)
(* Text columns are sequences of one-character strings, so that strip,     *)
(* split(','), icontains and iexact are computed and not assumed.          *)
(* average_rating is in hundredths (DecimalField(3,2)), user_rating in     *)
(* tenths (DecimalField(2,1)).                                             *)
(***************************************************************************)
EXTENDS Integers, Sequences, FiniteSets, TLC

VARIABLES books, loans, users, response, reqs

vars == <<books, loans, users, response, reqs>>

---------------------------------------------------------------------------
(* Bounds of the model *)

\* rows of the large catalog (more than the 30 / 20 / 15 slices of the views)
LargeCatalog == 34
\* rows of the small catalogs
SmallCatalog == 6
\* Loan rows ever created
MaxLoans == 2

---------------------------------------------------------------------------
(* SQL NULL *)

\* NULL in a numeric column (null=True)
NULL == -1
\* NULL in a text column (publisher: null=True)
NullStr == <<"NULL">>

---------------------------------------------------------------------------
(* Text: str.lower / UPPER(), str.strip, str.split(','), LIKE '%x%' *)

LowerChar(c) ==
    CASE c = "A" -> "a"
      [] c = "B" -> "b"
      [] c = "N" -> "n"
      [] c = "P" -> "p"
      [] c = "Q" -> "q"
      [] OTHER -> c

Lower(s) == [i \in 1..Len(s) |-> LowerChar(s[i])]

RECURSIVE StripLeft(_)
StripLeft(s) ==
    IF s # <<>> /\ Head(s) = " " THEN StripLeft(Tail(s)) ELSE s

RECURSIVE StripRight(_)
StripRight(s) ==
    IF s # <<>> /\ s[Len(s)] = " " THEN StripRight(SubSeq(s, 1, Len(s) - 1)) ELSE s

\* str.strip()
Strip(s) == StripRight(StripLeft(s))

\* str.split(','): the sequence of fields between commas (never empty)
RECURSIVE SplitComma(_)
SplitComma(s) ==
    IF \E i \in 1..Len(s) : s[i] = ","
    THEN LET i == CHOOSE j \in 1..Len(s) :
                      s[j] = "," /\ \A k \in 1..(j - 1) : s[k] # ","
         IN  <<SubSeq(s, 1, i - 1)>> \o SplitComma(SubSeq(s, i + 1, Len(s)))
    ELSE <<s>>

\* authors__icontains=needle : UPPER(hay) LIKE UPPER('%needle%')
IContains(hay, needle) ==
    \E i \in 0..(Len(hay) - Len(needle)) :
        SubSeq(Lower(hay), i + 1, i + Len(needle)) = Lower(needle)

\* publisher__iexact=value : UPPER(col) = UPPER(value); a NULL column matches nothing
IExact(col, value) == col # NullStr /\ Lower(col) = Lower(value)

---------------------------------------------------------------------------
(* Catalogs: the Book table as imported.  Row k of a catalog takes each    *)
(* column from a cycle, so rows repeat authors / publishers / ratings in   *)
(* different combinations.                                                 *)

Cyc(c, k) == c[((k - 1) % Len(c)) + 1]

\* Book.book_id of row pk: the business key, stored apart from the pk
BookIdOf(mode, k) ==
    CASE mode = "pk"    -> k
      [] mode = "shift" -> k + 1
      [] mode = "dup"   -> IF k = 3 THEN 2 ELSE k

MkBook(shape, k) ==
    [ book_id          |-> BookIdOf(shape.ids, k),
      authors          |-> Cyc(shape.authors, k),
      publisher        |-> Cyc(shape.publishers, k),
      average_rating   |-> Cyc(shape.ratings, k),
      ratings_count    |-> Cyc(shape.counts, k),
      publication_year |-> Cyc(shape.years, k),
      is_available     |-> TRUE ]

Shapes ==
    << \* large catalog: row 1 shares author/publisher with many rows,
       \* row 2 with few
       [ n |-> LargeCatalog, ids |-> "pk",
         authors    |-> << <<"A","b">>, <<"N","n">>, <<"a","b",","," ","B">>,
                           <<"B","a","b">>, <<"B">>, <<"A","b">>, <<"B",",">>,
                           <<"a","b",","," ","B">>, <<"B">> >>,
         publishers |-> << <<"P","a">>, <<"Q">>, <<"p","A">>, NullStr, <<>> >>,
         ratings    |-> <<450, 400, 500, NULL, 450, 300, 500>>,
         counts     |-> <<2, 1, 0>>,
         years      |-> <<2005, 1999, NULL>> ],
       \* book_id differs from the primary key
       [ n |-> SmallCatalog, ids |-> "shift",
         authors    |-> << <<"A","b">>, <<"a","b",","," ","N","n">>,
                           <<"B","a","b">>, <<"N","n">> >>,
         publishers |-> << <<"P","a">>, <<"p","A">>, <<"Q">> >>,
         ratings    |-> <<400, 300, 450>>,
         counts     |-> <<1, 1, 3>>,
         years      |-> <<1999, 2005>> ],
       \* empty authors, NULL / empty publisher, ratings 0.00
       [ n |-> SmallCatalog, ids |-> "pk",
         authors    |-> << <<>>, <<"B",",">>, <<"A","b">> >>,
         publishers |-> << <<"P","a">>, NullStr, <<>>, <<"p","A">> >>,
         ratings    |-> <<0, 0, 350, NULL>>,
         counts     |-> <<0, 2>>,
         years      |-> <<NULL, 2005>> ],
       \* duplicated book_id, unrated rows
       [ n |-> SmallCatalog, ids |-> "dup",
         authors    |-> << <<"N","n">>, <<"A","b">>, <<" ">> >>,
         publishers |-> << <<"Q">>, <<"P","a">> >>,
         ratings    |-> <<NULL, 450, 400>>,
         counts     |-> <<1>>,
         years      |-> <<2005>> ] >>

Catalog(shape) == [k \in 1..shape.n |-> MkBook(shape, k)]

---------------------------------------------------------------------------
(* Requests *)

Methods == {"GET", "POST"}

\* POST['username'] values: a reader's name with a leading blank, and a blank
UsernameInputs == { <<" ","b">>, <<" ">> }

\* <str:username> of the recommendations URL: the registered reader, who never
\* borrows, and the borrowing reader, unknown until the first borrow
UsernameArgs == { <<"a">>, <<"b">> }

\* <int:book_id> of the borrow / return URLs
BookIdInputs == {0, 1, 2}

\* POST['rating'] values: absent, a number, a number above 5, not a number
RatingInputs == {"", "4.5", "9.5", "abc"}

\* float(rating), in tenths; NULL stands for ValueError
ParseFloat(rating) ==
    CASE rating = "4.5" -> 45
      [] rating = "9.5" -> 95
      [] OTHER -> NULL

\* GET['min_rating'] of home and GET['rating_filter'] of user_dashboard:
\* absent, a number, not a number
DecimalInputs == {"", "4.0", "abc"}

\* Decimal(s) raises decimal.InvalidOperation (an ArithmeticError) on text
\* that is not a number
DecimalRaises(s) == s = "abc"

\* Decimal(s), in hundredths
DecimalValue(s) == IF s = "4.0" THEN 400 ELSE NULL

\* GET['availability'] of home
AvailabilityInputs == {"", "available", "borrowed"}

\* the rows of the User table before any request (a registered reader)
InitialUsers == { <<"a">> }

---------------------------------------------------------------------------
(* Responses *)

Response(view, status, outcome) ==
    [ view |-> view, status |-> status, outcome |-> outcome,
      username |-> <<>>, user_loans_exist |-> FALSE, books |-> <<>>,
      scored |-> {}, avg_rating |-> <<0, 1>>, priority_count |-> 0,
      history |-> <<>>, categories |-> <<>> ]

NoResponse == Response("none", 0, "none")

\* get_object_or_404 miss
Http404(view) == Response(view, 404, "Http404")

\* an uncaught exception: Django answers 500
ServerError(view, exc) == Response(view, 500, exc)

---------------------------------------------------------------------------
(* Queries on the tables *)

Pks == DOMAIN books

\* Book.objects.filter(book_id=book_id)
BooksWithId(book_id) == {p \in Pks : books[p].book_id = book_id}

LoanIdx == 1..Len(loans)

\* the loans of a book without filter(is_returned=False)
LoansOfBook(p) == {i \in LoanIdx : loans[i].book = p}

\* Loan.objects.filter(book=book, is_returned=False)
OpenLoans(p) == {i \in LoanIdx : loans[i].book = p /\ ~loans[i].is_returned}

\* .first() under Meta.ordering = ['-borrowed_date']: the latest borrowed
FirstLoan(S) == CHOOSE i \in S : \A j \in S : j <= i

\* Loan.objects.filter(user=user)
UserLoans(u) == {i \in LoanIdx : loans[i].user = u}

\* timezone.now(): a clock that advances with every write of a Loan row
Now == Len(loans) + Cardinality({i \in LoanIdx : loans[i].is_returned}) + 1

---------------------------------------------------------------------------
(* Initial state: an imported catalog, every book available, no loans *)

ReqIds == {1, 2}

\* a request in flight: where it stands and what it holds in memory
\* (book: the pk of its Book object, row: that object's columns as read,
\*  loan: the index of its Loan object, loan_row: that object's columns)
IdleReq == [ pc |-> "idle", book |-> 0, row |-> [is_available |-> FALSE],
             username |-> <<>>, loan |-> 0, loan_row |-> [is_returned |-> FALSE] ]

Init ==
    /\ \E c \in 1..Len(Shapes) : books = Catalog(Shapes[c])
    /\ loans = <<>>
    /\ users = InitialUsers
    /\ response = NoResponse
    /\ reqs = [r \in ReqIds |-> IdleReq]

---------------------------------------------------------------------------
(* borrow_book and return_book, each request run to completion *)

\* Loan.objects.create(user=user, book=book, due_date=...)
NewLoan(u, p) ==
    [ user |-> u, book |-> p, is_returned |-> FALSE,
      returned_date |-> NULL, user_rating |-> NULL ]

\* return_book that does not mark the loan returned
ReturnedLoanStillOpen(loan, rating, now) ==
    [ loan EXCEPT !.user_rating =
                      IF rating # "" /\ ParseFloat(rating) # NULL
                      THEN ParseFloat(rating) ELSE @,
                  !.returned_date = now ]

\* lines 302-313: the Loan row that return_book saves
ReturnedLoan(loan, rating, now) ==
    [ loan EXCEPT !.user_rating =
                      IF rating # "" /\ ParseFloat(rating) # NULL
                      THEN ParseFloat(rating) ELSE @,
                  !.is_returned = TRUE,
                  !.returned_date = now ]

BorrowBook(method, book_id, username) ==
    LET found == BooksWithId(book_id) IN
    /\ UNCHANGED reqs
    /\ IF found = {}
       THEN /\ response' = Http404("borrow_book")
            /\ UNCHANGED <<books, loans, users>>
       ELSE IF Cardinality(found) > 1
       THEN /\ response' = ServerError("borrow_book", "MultipleObjectsReturned")
            /\ UNCHANGED <<books, loans, users>>
       ELSE LET p == CHOOSE q \in found : TRUE
                u == Strip(username) IN
            IF method = "POST" /\ books[p].is_available
            THEN IF u = <<>>
                 THEN /\ response' = Response("borrow_book", 200, "error")
                      /\ UNCHANGED <<books, loans, users>>
                 ELSE /\ Len(loans) < MaxLoans
                      /\ users' = users \cup {u}
                      /\ loans' = Append(loans, NewLoan(u, p))
                      /\ books' = [books EXCEPT ![p].is_available = FALSE]
                      /\ response' = Response("borrow_book", 302, "home")
            ELSE /\ response' = Response("borrow_book", 200, "form")
                 /\ UNCHANGED <<books, loans, users>>

ReturnBook(method, book_id, rating) ==
    LET found == BooksWithId(book_id) IN
    /\ UNCHANGED <<reqs, users>>
    /\ IF found = {}
       THEN /\ response' = Http404("return_book")
            /\ UNCHANGED <<books, loans>>
       ELSE IF Cardinality(found) > 1
       THEN /\ response' = ServerError("return_book", "MultipleObjectsReturned")
            /\ UNCHANGED <<books, loans>>
       ELSE LET p == CHOOSE q \in found : TRUE IN
            IF OpenLoans(p) = {}
            THEN /\ response' = Response("return_book", 302, "home")
                 /\ UNCHANGED <<books, loans>>
            ELSE LET i == FirstLoan(OpenLoans(p)) IN
                 IF method = "POST"
                 THEN /\ loans' = [loans EXCEPT ![i] = ReturnedLoan(@, rating, Now)]
                      /\ books' = [books EXCEPT ![p].is_available = TRUE]
                      /\ response' = Response("return_book", 302, "user_dashboard")
                 ELSE /\ response' = Response("return_book", 200, "form")
                      /\ UNCHANGED <<books, loans>>

---------------------------------------------------------------------------
(* user_recommendations: the taste profile *)

Range(f) == {f[i] : i \in DOMAIN f}

RECURSIVE SumRatings(_)
SumRatings(S) ==
    IF S = {} THEN 0
    ELSE LET i == CHOOSE j \in S : TRUE
         IN  books[loans[i].book].average_rating + SumRatings(S \ {i})

\* user_loans.values_list('book_id', flat=True): Loan.book_id is the column of
\* the ForeignKey Loan.book, which holds the primary key of the Book row
read_book_ids(u) == {loans[i].book : i \in UserLoans(u)}

\* the authors of the loaned books, split on ',' and stripped
read_authors(u) ==
    UNION { IF books[loans[i].book].authors # <<>>
            THEN {Strip(t) : t \in Range(SplitComma(books[loans[i].book].authors))}
            ELSE {}
          : i \in UserLoans(u) }

\* the distinct publishers of the loaned books, NULL and '' excluded
read_publishers(u) ==
    {books[loans[i].book].publisher : i \in UserLoans(u)} \ {NullStr, <<>>}

\* Decimal('3.5')
DefaultRating == 350

\* Avg('book__average_rating') over the user's loans: <<sum, count>> of the
\* non-NULL values, <<0, 0>> for None (no non-NULL value)
AvgBookRating(u) ==
    LET rated == {i \in UserLoans(u) : books[loans[i].book].average_rating # NULL}
    IN  <<SumRatings(rated), Cardinality(rated)>>

\* aggregate(...)['avg'] or Decimal('3.5'): None and Decimal('0') are falsy
avg_rating(u) ==
    LET avg == AvgBookRating(u)
    IN  IF avg[2] = 0 \/ avg[1] = 0 THEN <<DefaultRating, 1>> ELSE avg

---------------------------------------------------------------------------
(* Q objects: a Q is the set of its AND-ed clauses, each clause an OR of   *)
(* lookups on one column; Q() is the empty set.                            *)

\* Q() |= Q(authors__icontains=a) for every read author
author_conditions(authors) ==
    IF authors = {} THEN {}
    ELSE {[lookup |-> "authors__icontains", values |-> {Lower(a) : a \in authors}]}

\* Q() |= Q(publisher__iexact=p) for every read publisher
publisher_conditions(publishers) ==
    IF publishers = {} THEN {}
    ELSE {[lookup |-> "publisher__iexact", values |-> {Lower(v) : v \in publishers}]}

\* q1 & q2: an empty operand is dropped, otherwise both must hold
QAnd(q1, q2) == q1 \cup q2

\* UPPER(authors) LIKE UPPER('%a%') / UPPER(publisher) = UPPER(v), the values
\* of the clause already folded; a NULL publisher matches nothing
ClauseMatches(c, row) ==
    IF c.lookup = "authors__icontains"
    THEN LET hay == Lower(row.authors) \o <<>> IN
         \E a \in c.values :
             \E i \in 0..(Len(hay) - Len(a)) : SubSeq(hay, i + 1, i + Len(a)) = a
    ELSE row.publisher # NullStr /\ Lower(row.publisher) \in c.values

QMatches(q, row) == \A c \in q : ClauseMatches(c, row)

\* When(condition): "An empty Q() can't be used as a When() condition"
WhenRaises(q) == q = {}

\* lines 99-160: what the view derives from the user's loans
Profile(u) ==
    [ read_book_ids        |-> read_book_ids(u),
      avg_rating           |-> avg_rating(u),
      author_conditions    |-> author_conditions(read_authors(u)),
      publisher_conditions |-> publisher_conditions(read_publishers(u)) ]

\* the three When() built from the profile, in the order of the Case()
CaseRaises(prof) ==
    \/ WhenRaises(QAnd(prof.author_conditions, prof.publisher_conditions))
    \/ WhenRaises(prof.author_conditions)
    \/ WhenRaises(prof.publisher_conditions)

\* Decimal('0.5')
HalfPoint == 50

\* average_rating__gte=avg - 0.5 & average_rating__lte=avg + 0.5, avg = num/den;
\* a NULL rating satisfies neither comparison
RatingInRange(row, avg) ==
    /\ row.average_rating # NULL
    /\ row.average_rating * avg[2] >= avg[1] - HalfPoint * avg[2]
    /\ row.average_rating * avg[2] <= avg[1] + HalfPoint * avg[2]

\* Case(When(...4), When(...3), When(...2), When(...1), default=0): first match
PriorityScore(prof, row) ==
    IF QMatches(QAnd(prof.author_conditions, prof.publisher_conditions), row) THEN 4
    ELSE IF QMatches(prof.author_conditions, row) THEN 3
    ELSE IF QMatches(prof.publisher_conditions, row) THEN 2
    ELSE IF RatingInRange(row, prof.avg_rating) THEN 1
    ELSE 0

\* Count('loans'): loans ever made against the book
Popularity(p) == Cardinality({i \in LoanIdx : loans[i].book = p})

---------------------------------------------------------------------------
(* ORDER BY ... DESC and slices.  A query scans the table forward or       *)
(* backward and sorts the rows it keeps by their ORDER BY key; rows equal  *)
(* on the whole key stay in scan order (SQL leaves their order open).      *)

TieOrders == {"forward", "backward"}

\* the primary keys in S in the order of the scan
Scan(S, tie) ==
    LET n == Cardinality(Pks)
        InS(p) == p \in S
    IN  SelectSeq([i \in 1..n |-> IF tie = "forward" THEN i ELSE n + 1 - i], InS)

\* the key of column value v under ORDER BY col DESC, for ascending comparison:
\* PostgreSQL sorts NULL first under DESC
Desc(v) == IF v = NULL THEN <<0, 0>> ELSE <<1, 0 - v>>

\* k1 sorts strictly before k2 (keys of equal length)
KeyBefore(k1, k2) ==
    \E i \in 1..Len(k1) : k1[i] < k2[i] /\ \A j \in 1..(i - 1) : k1[j] = k2[j]

RECURSIVE MergeRows(_, _)
MergeRows(a, b) ==
    IF a = <<>> THEN b
    ELSE IF b = <<>> THEN a
    ELSE IF KeyBefore(Head(b).key, Head(a).key)
         THEN <<Head(b)>> \o MergeRows(a, Tail(b))
         ELSE <<Head(a)>> \o MergeRows(Tail(a), b)

\* the rows of sequence s sorted by key, rows of equal key in the order of s
RECURSIVE OrderBy(_)
OrderBy(s) ==
    IF Len(s) <= 1 THEN s
    ELSE LET h == Len(s) \div 2
         IN  MergeRows(OrderBy(SubSeq(s, 1, h)), OrderBy(SubSeq(s, h + 1, Len(s))))

\* queryset[:n]
Slice(seq, n) == SubSeq(seq, 1, IF Len(seq) < n THEN Len(seq) ELSE n)

PkOf(rows) == [i \in 1..Len(rows) |-> rows[i].pk] \o <<>>

\* order_by('-priority_score', '-average_rating', '-popularity', '-publication_year')
RecKey(score, p) ==
    <<0 - score>> \o Desc(books[p].average_rating)
                  \o <<0 - Popularity(p)>> \o Desc(books[p].publication_year)

\* order_by('-average_rating', '-ratings_count')
ColdKey(p) == Desc(books[p].average_rating) \o <<0 - books[p].ratings_count>>

\* order_by('-ratings_count', '-average_rating')
PopularKey(p) == <<0 - books[p].ratings_count>> \o Desc(books[p].average_rating)

---------------------------------------------------------------------------
(* user_recommendations *)

ColdStartLimit == 20
TopLimit == 30
PriorityThreshold == 10
PriorityLimit == 15
PopularLimit == 15
\* Decimal('4.0')
PopularMinRating == 400
\* priority_score__gte=2
PriorityMinScore == 2

\* the cold-start query without filter(is_available=True)
ColdStartBooksAll(tie) ==
    LET scan == Scan(Pks, tie)
        rows == [i \in 1..Len(scan) |-> [pk |-> scan[i], key |-> ColdKey(scan[i])]] \o <<>>
    IN  PkOf(Slice(OrderBy(rows), ColdStartLimit))

\* Book.objects.filter(is_available=True).order_by(...)[:20]
ColdStartBooks(tie) ==
    LET scan == Scan({p \in Pks : books[p].is_available}, tie)
        rows == [i \in 1..Len(scan) |-> [pk |-> scan[i], key |-> ColdKey(scan[i])]] \o <<>>
    IN  PkOf(Slice(OrderBy(rows), ColdStartLimit))

\* the main query without filter(is_available=True)
CandidatesOnLoanToo(prof) ==
    {p \in Pks : books[p].book_id \notin prof.read_book_ids}

\* filter(is_available=True).exclude(book_id__in=read_book_ids)
Candidates(prof) ==
    {p \in Pks : books[p].is_available /\ books[p].book_id \notin prof.read_book_ids}

\* the rows of the main query with their annotations, in scan order
Annotated(prof, tie) ==
    LET scan == Scan(Candidates(prof), tie)
        Row(p) == LET score == PriorityScore(prof, books[p])
                  IN  [pk |-> p, priority_score |-> score, key |-> RecKey(score, p)]
    IN  [i \in 1..Len(scan) |-> Row(scan[i])] \o <<>>

IsPriority(x) == x.priority_score >= PriorityMinScore

\* the supplemental query without its exclude(): priority books may come again
PopularBooksNoExclude(all_excluded, tie) ==
    LET popular == {p \in Pks : /\ books[p].is_available
                                /\ books[p].average_rating # NULL
                                /\ books[p].average_rating >= PopularMinRating}
        scan == Scan(popular, tie)
        rows == [i \in 1..Len(scan) |-> [pk |-> scan[i], key |-> PopularKey(scan[i])]] \o <<>>
    IN  PkOf(Slice(OrderBy(rows), PopularLimit))

\* lines 213-219: the well-rated available books outside all_excluded
PopularBooks(all_excluded, tie) ==
    LET popular == {p \in Pks : /\ books[p].is_available
                                /\ books[p].average_rating # NULL
                                /\ books[p].average_rating >= PopularMinRating
                                /\ books[p].book_id \notin all_excluded}
        scan == Scan(popular, tie)
        rows == [i \in 1..Len(scan) |-> [pk |-> scan[i], key |-> PopularKey(scan[i])]] \o <<>>
    IN  PkOf(Slice(OrderBy(rows), PopularLimit))

\* lines 201-223: the final list (primary keys) from the ordered rows
FinalRecommendations(prof, recommendations, tie) ==
    LET priority == SelectSeq(recommendations, IsPriority)
        priority_count == Len(priority)
    IN  IF priority_count < PriorityThreshold
        THEN LET priority_recs == Slice(priority, PriorityLimit)
                 priority_ids == {books[x.pk].book_id : x \in Range(priority_recs)}
                 all_excluded == prof.read_book_ids \cup priority_ids
             IN  PkOf(priority_recs) \o PopularBooks(all_excluded, tie)
        ELSE PkOf(Slice(recommendations, TopLimit))

Personalized(username, prof, tie) ==
    LET recommendations == OrderBy(Annotated(prof, tie)) IN
    [ Response("user_recommendations", 200, "personalized")
      EXCEPT !.username = username,
             !.user_loans_exist = TRUE,
             !.avg_rating = prof.avg_rating,
             !.scored = {<<x.pk, x.priority_score>> : x \in Range(recommendations)},
             !.priority_count = Len(SelectSeq(recommendations, IsPriority)),
             !.books = FinalRecommendations(prof, recommendations, tie) ]

UserRecommendations(username, tie) ==
    /\ UNCHANGED <<books, loans, users, reqs>>
    /\ IF username \notin users
       THEN response' = [Http404("user_recommendations") EXCEPT !.username = username]
       ELSE IF UserLoans(username) = {}
       THEN response' =
                [ Response("user_recommendations", 200, "cold_start")
                  EXCEPT !.username = username,
                         !.books = ColdStartBooks(tie) ]
       ELSE LET prof == Profile(username) IN
            IF CaseRaises(prof)
            THEN response' =
                     [ ServerError("user_recommendations", "ValueError")
                       EXCEPT !.username = username ]
            ELSE response' = Personalized(username, prof, tie)

---------------------------------------------------------------------------
(* home and user_dashboard.  Of home's parameters the text search, the     *)
(* publisher and the pages filter are left absent.                         *)

HomeFeaturedLimit == 20
HomeLimit == 50

\* order_by('-average_rating'), also Book.Meta.ordering
RatingKey(p) == Desc(books[p].average_rating)

\* lines 22-63: the books home lists once min_rating is parsed (or absent)
HomeBooks(min_rating, availability, tie) ==
    LET filters_active == min_rating # "" \/ availability # ""
        kept == {p \in Pks :
                    /\ min_rating # "" =>
                           /\ books[p].average_rating # NULL
                           /\ books[p].average_rating >= DecimalValue(min_rating)
                    /\ availability = "available" => books[p].is_available
                    /\ availability = "borrowed" => ~books[p].is_available
                    /\ ~filters_active => books[p].is_available}
        scan == Scan(kept, tie)
        rows == [i \in 1..Len(scan) |-> [pk |-> scan[i], key |-> RatingKey(scan[i])]] \o <<>>
    IN  PkOf(Slice(OrderBy(rows), IF filters_active THEN HomeLimit ELSE HomeFeaturedLimit))

Home(min_rating, availability, tie) ==
    /\ UNCHANGED <<books, loans, users, reqs>>
    /\ IF min_rating # "" /\ DecimalRaises(min_rating)
       THEN response' = ServerError("home", "InvalidOperation")
       ELSE response' = [Response("home", 200, "home")
                            EXCEPT !.books = HomeBooks(min_rating, availability, tie)]

RECURSIVE InsertLoan(_, _)
\* loan i put into a sequence of loans ordered by '-returned_date'
InsertLoan(seq, i) ==
    IF seq = <<>> THEN <<i>>
    ELSE IF loans[i].returned_date > loans[Head(seq)].returned_date
         THEN <<i>> \o seq
         ELSE <<Head(seq)>> \o InsertLoan(Tail(seq), i)

RECURSIVE OrderLoans(_)
OrderLoans(S) ==
    IF S = {} THEN <<>>
    ELSE LET i == CHOOSE j \in S : \A k \in S : k <= j
         IN  InsertLoan(OrderLoans(S \ {i}), i)

\* lines 345-354: reading_history, user_rating in tenths against hundredths
ReadingHistory(u, rating_filter) ==
    OrderLoans({i \in UserLoans(u) :
                   /\ loans[i].is_returned
                   /\ rating_filter # "" =>
                          /\ loans[i].user_rating # NULL
                          /\ loans[i].user_rating * 10 >= DecimalValue(rating_filter)})

UserDashboard(username, rating_filter) ==
    /\ UNCHANGED <<books, loans, users, reqs>>
    /\ IF username \notin users
       THEN response' = [Response("user_dashboard", 200, "user_not_found")
                            EXCEPT !.username = username]
       ELSE IF rating_filter # "" /\ DecimalRaises(rating_filter)
       THEN response' = [ServerError("user_dashboard", "InvalidOperation")
                            EXCEPT !.username = username]
       ELSE response' = [Response("user_dashboard", 200, "user_dashboard")
                            EXCEPT !.username = username,
                                   !.history = ReadingHistory(username, rating_filter)]

Next ==
    \/ \E m \in Methods, b \in BookIdInputs, u \in UsernameInputs : BorrowBook(m, b, u)
    \/ \E m \in Methods, b \in BookIdInputs, r \in RatingInputs : ReturnBook(m, b, r)
    \/ \E u \in UsernameArgs, t \in TieOrders : UserRecommendations(u, t)

Spec == Init /\ [][Next]_vars

---------------------------------------------------------------------------
(* get_categorized_recommendations: the profile is built as in             *)
(* user_recommendations (lines 481-516 repeat lines 99-160), the tiers are *)
(* four filter() queries instead of one Case().                            *)

\* limit_per_category: the default and a smaller one
LimitInputs == {2, 10}

\* filter(author_q | publisher_q): an empty operand of | is dropped, and
\* filter(Q()) keeps every row
QOrMatches(q1, q2, row) ==
    IF q1 = {} THEN QMatches(q2, row)
    ELSE IF q2 = {} THEN QMatches(q1, row)
    ELSE QMatches(q1, row) \/ QMatches(q2, row)

\* order_by('-ratings_count')
CountKey(p) == <<0 - books[p].ratings_count>>

\* list(queryset.order_by(...)[:limit_per_category]) over the rows in S
CategoryList(S, by, limit, tie) ==
    LET scan == Scan(S, tie)
        rows == [i \in 1..Len(scan) |->
                    [pk |-> scan[i],
                     key |-> IF by = "-average_rating" THEN RatingKey(scan[i])
                             ELSE CountKey(scan[i])]] \o <<>>
    IN  PkOf(Slice(OrderBy(rows), limit))

\* lines 519-546: same_author_and_publisher, same_author, same_publisher,
\* similar_rating, in this order
CategorizedLists(prof, limit, tie) ==
    LET base_qs   == Candidates(prof)
        author_q    == prof.author_conditions
        publisher_q == prof.publisher_conditions
        both      == {p \in base_qs : QMatches(QAnd(author_q, publisher_q), books[p])}
        by_author == {p \in base_qs : QMatches(author_q, books[p])}
        by_publisher == {p \in base_qs : QMatches(publisher_q, books[p])}
        either    == {p \in base_qs : QOrMatches(author_q, publisher_q, books[p])}
        in_range  == {p \in base_qs : RatingInRange(books[p], prof.avg_rating)}
    IN  << CategoryList(both, "-average_rating", limit, tie),
           CategoryList(by_author \ both, "-average_rating", limit, tie),
           CategoryList(by_publisher \ by_author, "-average_rating", limit, tie),
           CategoryList(in_range \ either, "-ratings_count", limit, tie) >>

GetCategorizedRecommendations(username, limit, tie) ==
    LET Answer(outcome) ==
            [Response("get_categorized_recommendations", 200, outcome)
                EXCEPT !.username = username]
    IN
    /\ UNCHANGED <<books, loans, users, reqs>>
    /\ IF username \notin users
       THEN response' = Answer("Usuario no encontrado")
       ELSE IF UserLoans(username) = {}
       THEN response' = Answer("Usuario sin historial")
       ELSE response' =
                [Answer("categorized")
                    EXCEPT !.user_loans_exist = TRUE,
                           !.avg_rating = avg_rating(username),
                           !.categories = CategorizedLists(Profile(username), limit, tie)]

\* the listing views over the tables that borrow_book and return_book write
NextViews ==
    \/ \E m \in Methods, b \in BookIdInputs, u \in UsernameInputs : BorrowBook(m, b, u)
    \/ \E m \in Methods, b \in BookIdInputs, r \in RatingInputs : ReturnBook(m, b, r)
    \/ \E x \in DecimalInputs, a \in AvailabilityInputs, t \in TieOrders : Home(x, a, t)
    \/ \E u \in UsernameArgs, x \in DecimalInputs : UserDashboard(u, x)
    \/ \E u \in UsernameArgs, n \in LimitInputs, t \in TieOrders :
           GetCategorizedRecommendations(u, n, t)

SpecViews == Init /\ [][NextViews]_vars

---------------------------------------------------------------------------
(* borrow_book and return_book as their storage steps: two requests run    *)
(* at once, each statement that reads or writes a table being one step     *)
(* (autocommit, no transaction, no select_for_update).                     *)

\* a new request takes the lowest free worker
FreeReq(r) == reqs[r].pc = "idle" /\ \A q \in ReqIds : q < r => reqs[q].pc # "idle"

\* Loan rows already promised to requests in flight
Borrowing == {r \in ReqIds : reqs[r].pc \in {"borrow_user", "borrow_loan"}}

\* lines 254-265: get_object_or_404(Book, book_id=book_id), then the checks
\* made on the Book object in memory
BorrowRead(r, method, book_id, username) ==
    LET found == BooksWithId(book_id) IN
    /\ FreeReq(r)
    /\ UNCHANGED <<books, loans, users>>
    /\ IF found = {}
       THEN /\ response' = Http404("borrow_book")
            /\ UNCHANGED reqs
       ELSE IF Cardinality(found) > 1
       THEN /\ response' = ServerError("borrow_book", "MultipleObjectsReturned")
            /\ UNCHANGED reqs
       ELSE LET p == CHOOSE q \in found : TRUE
                u == Strip(username) IN
            IF method = "POST" /\ books[p].is_available
            THEN IF u = <<>>
                 THEN /\ response' = Response("borrow_book", 200, "error")
                      /\ UNCHANGED reqs
                 ELSE /\ Len(loans) + Cardinality(Borrowing) < MaxLoans
                      /\ reqs' = [reqs EXCEPT ![r] =
                                     [IdleReq EXCEPT !.pc = "borrow_user",
                                                     !.book = p, !.row = books[p],
                                                     !.username = u]]
                      /\ UNCHANGED response
            ELSE /\ response' = Response("borrow_book", 200, "form")
                 /\ UNCHANGED reqs

\* lines 268-274: User.objects.get_or_create(username=username, ...)
BorrowGetOrCreateUser(r) ==
    /\ reqs[r].pc = "borrow_user"
    /\ users' = users \cup {reqs[r].username}
    /\ reqs' = [reqs EXCEPT ![r].pc = "borrow_loan"]
    /\ UNCHANGED <<books, loans, response>>

\* lines 277-281: Loan.objects.create(user=user, book=book, ...)
BorrowCreateLoan(r) ==
    /\ reqs[r].pc = "borrow_loan"
    /\ loans' = Append(loans, NewLoan(reqs[r].username, reqs[r].book))
    /\ reqs' = [reqs EXCEPT ![r].pc = "borrow_save"]
    /\ UNCHANGED <<books, users, response>>

\* lines 284-286: book.is_available = False; book.save() writes every column
\* of the object in memory
BorrowSaveBook(r) ==
    /\ reqs[r].pc = "borrow_save"
    /\ books' = [books EXCEPT ![reqs[r].book] =
                    [reqs[r].row EXCEPT !.is_available = FALSE]]
    /\ response' = Response("borrow_book", 302, "home")
    /\ reqs' = [reqs EXCEPT ![r] = IdleReq]
    /\ UNCHANGED <<loans, users>>

\* line 293: get_object_or_404(Book, book_id=book_id); request.method and
\* request.POST are first read at lines 302 and 304, where the steps below
\* take them as their inputs
ReturnReadBook(r, book_id) ==
    LET found == BooksWithId(book_id) IN
    /\ FreeReq(r)
    /\ UNCHANGED <<books, loans, users>>
    /\ IF found = {}
       THEN /\ response' = Http404("return_book")
            /\ UNCHANGED reqs
       ELSE IF Cardinality(found) > 1
       THEN /\ response' = ServerError("return_book", "MultipleObjectsReturned")
            /\ UNCHANGED reqs
       ELSE LET p == CHOOSE q \in found : TRUE IN
            /\ reqs' = [reqs EXCEPT ![r] =
                           [IdleReq EXCEPT !.pc = "return_loan",
                                           !.book = p, !.row = books[p]]]
            /\ UNCHANGED response

\* lines 296-301, 322-323: Loan.objects.filter(book=book, is_returned=False).first()
ReturnReadLoan(r, method) ==
    LET open == OpenLoans(reqs[r].book) IN
    /\ reqs[r].pc = "return_loan"
    /\ UNCHANGED <<books, loans, users>>
    /\ IF open = {}
       THEN /\ response' = Response("return_book", 302, "home")
            /\ reqs' = [reqs EXCEPT ![r] = IdleReq]
       ELSE IF method = "POST"
       THEN /\ reqs' = [reqs EXCEPT ![r].pc = "return_save_loan",
                                    ![r].loan = FirstLoan(open),
                                    ![r].loan_row = loans[FirstLoan(open)]]
            /\ UNCHANGED response
       ELSE /\ response' = Response("return_book", 200, "form")
            /\ reqs' = [reqs EXCEPT ![r] = IdleReq]

\* lines 302-314: the Loan object is changed in memory and saved, every column
ReturnSaveLoan(r, rating) ==
    /\ reqs[r].pc = "return_save_loan"
    /\ loans' = [loans EXCEPT ![reqs[r].loan] =
                    ReturnedLoan(reqs[r].loan_row, rating, Now)]
    /\ reqs' = [reqs EXCEPT ![r].pc = "return_save_book"]
    /\ UNCHANGED <<books, users, response>>

\* lines 317-320: book.is_available = True; book.save()
ReturnSaveBook(r) ==
    /\ reqs[r].pc = "return_save_book"
    /\ books' = [books EXCEPT ![reqs[r].book] =
                    [reqs[r].row EXCEPT !.is_available = TRUE]]
    /\ response' = Response("return_book", 302, "user_dashboard")
    /\ reqs' = [reqs EXCEPT ![r] = IdleReq]
    /\ UNCHANGED <<loans, users>>

NextConc ==
    \/ \E r \in ReqIds, m \in Methods, b \in BookIdInputs, u \in UsernameInputs :
           BorrowRead(r, m, b, u)
    \/ \E r \in ReqIds : BorrowGetOrCreateUser(r)
    \/ \E r \in ReqIds : BorrowCreateLoan(r)
    \/ \E r \in ReqIds : BorrowSaveBook(r)
    \/ \E r \in ReqIds, b \in BookIdInputs : ReturnReadBook(r, b)
    \/ \E r \in ReqIds, m \in Methods : ReturnReadLoan(r, m)
    \/ \E r \in ReqIds, x \in RatingInputs : ReturnSaveLoan(r, x)
    \/ \E r \in ReqIds : ReturnSaveBook(r)

SpecConc == Init /\ [][NextConc]_vars

---------------------------------------------------------------------------
(* The taste profile and the tiers as the specification defines them *)

\* the last request was user_recommendations(u): the tables are those it read
Recommended(u) == response.view = "user_recommendations" /\ response.username = u

PersonalizedFor(u) == Recommended(u) /\ response.outcome = "personalized"

\* readBookIds: the Book.book_id of every book the user's loans reference
readBookIds(u) == {books[loans[i].book].book_id : i \in UserLoans(u)}

\* knownAuthors: the authors of the loaned books, split on ',' and trimmed
knownAuthors(u) ==
    UNION { {Strip(t) : t \in Range(SplitComma(books[loans[i].book].authors))}
            : i \in {j \in UserLoans(u) : books[loans[j].book].authors # <<>>} }

\* knownPublishers: the non-null, non-empty publishers of the loaned books
knownPublishers(u) ==
    {v \in {books[loans[i].book].publisher : i \in UserLoans(u)} :
        v # NullStr /\ v # <<>>}

RatedLoans(u) == {i \in UserLoans(u) : books[loans[i].book].average_rating # NULL}

authorMatch(u, row) == \E a \in knownAuthors(u) : IContains(row.authors, a)

publisherMatch(u, row) == \E v \in knownPublishers(u) : IExact(row.publisher, v)

\* within avg - 0.5 .. avg + 0.5, avg given as <<numerator, denominator>>
ratingMatch(avg, row) ==
    /\ row.average_rating # NULL
    /\ avg[2] * (row.average_rating + 50) >= avg[1]
    /\ avg[2] * (row.average_rating - 50) <= avg[1]

Tier(u, avg, row) ==
    CASE authorMatch(u, row) /\ publisherMatch(u, row) -> 4
      [] authorMatch(u, row) /\ ~publisherMatch(u, row) -> 3
      [] ~authorMatch(u, row) /\ publisherMatch(u, row) -> 2
      [] OTHER -> IF ratingMatch(avg, row) THEN 1 ELSE 0

\* the output as a set, and the score the response carries for a book
Output == Range(response.books)

ScoreOf(p) == (CHOOSE x \in response.scored : x[1] = p)[2]

Scored == {x[1] : x \in response.scored}

---------------------------------------------------------------------------
\* C1 -- Exclusion: no book in a personalized list has a book_id that is in the
\* user's readBookIds (the book_id of every book the user's loans reference).
C1_Exclusion ==
    \A u \in users :
        PersonalizedFor(u) =>
            \A p \in Output : books[p].book_id \notin readBookIds(u)

\* C2 -- Tier assignment: for a user with at least one loan the call scores
\* every eligible candidate, 4 / 3 / 2 / 1 / 0 by the first rule that matches,
\* also when knownAuthors or knownPublishers is empty.
C2_TierAssignment ==
    \A u \in users :
        (Recommended(u) /\ UserLoans(u) # {}) =>
            /\ response.outcome = "personalized"
            /\ \A x \in response.scored :
                   x[2] = Tier(u, response.avg_rating, books[x[1]])

\* C3 -- The only failure is NotFound for an unknown username; for an existing
\* user the call returns the cold-start list (no loans) or a personalized list
\* (at least one loan), whatever the authors and publishers of the loaned books.
C3_OnlyNotFound ==
    \A u \in UsernameArgs :
        Recommended(u) =>
            IF u \notin users THEN response.status = 404
            ELSE /\ response.status = 200
                 /\ response.outcome =
                        IF UserLoans(u) = {} THEN "cold_start" ELSE "personalized"

---------------------------------------------------------------------------
\* C5 -- Availability invariant: with requests run one after the other, a book
\* is unavailable exactly when one open loan references it, available when
\* none does, and never has more than one open loan.
C5_AvailabilityInvariant ==
    \A p \in Pks :
        /\ Cardinality(OpenLoans(p)) <= 1
        /\ books[p].is_available <=> OpenLoans(p) = {}

\* a book returned once and borrowed again, and another loan already returned
C5_Witness ==
    \E p \in Pks :
        /\ ~books[p].is_available
        /\ Cardinality(OpenLoans(p)) = 1
        /\ \E i \in LoanIdx : loans[i].book = p /\ loans[i].is_returned

---------------------------------------------------------------------------
RECURSIVE RatingTotal(_, _)
\* the sum of the defined average_rating of the books of u's loans 1..n
RatingTotal(u, n) ==
    IF n = 0 THEN 0
    ELSE RatingTotal(u, n - 1)
         + (IF loans[n].user = u /\ books[loans[n].book].average_rating # NULL
            THEN books[loans[n].book].average_rating ELSE 0)

\* C6 -- averageEnjoyedRating is the mean of the defined average_rating of the
\* user's loaned books (also when they are all 0), and 3.5 when none is defined.
C6_AverageEnjoyedRating ==
    \A u \in users :
        PersonalizedFor(u) =>
            IF RatedLoans(u) = {}
            THEN response.avg_rating[1] = 350 * response.avg_rating[2]
            ELSE response.avg_rating[1] * Cardinality(RatedLoans(u))
                     = RatingTotal(u, Len(loans)) * response.avg_rating[2]

---------------------------------------------------------------------------
(* Orders as the claims state them *)

\* x comes no later than y under "descending", as the store orders a column
\* (an undefined value first)
StoreDescending(x, y) == x = y \/ x = NULL \/ (y # NULL /\ x > y)

\* descending by (tier, average_rating, popularity, publication_year)
StepTwoOrdered(p, q) ==
    LET kp == <<ScoreOf(p), books[p].average_rating, Popularity(p), books[p].publication_year>>
        kq == <<ScoreOf(q), books[q].average_rating, Popularity(q), books[q].publication_year>>
    IN  \/ kp = kq
        \/ \E i \in 1..4 : /\ \A j \in 1..(i - 1) : kp[j] = kq[j]
                           /\ kp[i] # kq[i]
                           /\ StoreDescending(kp[i], kq[i])

\* descending by ratings_count, then by average_rating
PopularOrdered(p, q) ==
    \/ books[p].ratings_count > books[q].ratings_count
    \/ /\ books[p].ratings_count = books[q].ratings_count
       /\ StoreDescending(books[p].average_rating, books[q].average_rating)

\* descending by average_rating, then by ratings_count
ColdOrdered(p, q) ==
    \/ /\ books[p].average_rating # books[q].average_rating
       /\ StoreDescending(books[p].average_rating, books[q].average_rating)
    \/ /\ books[p].average_rating = books[q].average_rating
       /\ books[p].ratings_count >= books[q].ratings_count

NoRepeat(seq) == \A i, j \in 1..Len(seq) : seq[i] = seq[j] => i = j

PriorityBooks == {p \in Scored : ScoreOf(p) >= 2}

\* C7 -- Sparse fallback: with fewer than 10 candidates of tier >= 2 the output
\* is those candidates (at most 15, in the step-2 order) followed by at most 15
\* available books rated >= 4.0 ordered by ratings_count then average_rating
\* descending, whatever their tier; at most 30 in all and no book twice.
C7_SparseFallback ==
    \A u \in users :
        (PersonalizedFor(u) /\ Cardinality(PriorityBooks) < 10) =>
            LET out == response.books
                k   == Cardinality(PriorityBooks)
            IN  /\ k <= 15
                /\ Len(out) >= k
                /\ {out[i] : i \in 1..k} = PriorityBooks
                /\ \A i \in 1..(k - 1) : StepTwoOrdered(out[i], out[i + 1])
                /\ Len(out) - k <= 15
                /\ \A i \in (k + 1)..Len(out) :
                       /\ books[out[i]].is_available
                       /\ books[out[i]].average_rating # NULL
                       /\ books[out[i]].average_rating >= 400
                /\ \A i \in (k + 1)..(Len(out) - 1) : PopularOrdered(out[i], out[i + 1])
                /\ Len(out) <= 30
                /\ NoRepeat(out)

\* the large catalog: some but fewer than 10 priority candidates, of which one
\* is itself rated >= 4.0, followed by 15 supplemental books, among them a
\* tier-0 book, more well-rated books being left out
C7_Witness ==
    \E u \in users :
        /\ PersonalizedFor(u)
        /\ Cardinality(PriorityBooks) \in 2..9
        /\ \E p \in PriorityBooks : books[p].average_rating >= 400
        /\ Len(response.books) = Cardinality(PriorityBooks) + 15
        /\ \E p \in Output \ PriorityBooks : ScoreOf(p) = 0
        /\ \E p \in Scored \ Output : books[p].average_rating >= 400

---------------------------------------------------------------------------
\* rating x is at least rating y; an undefined rating is no rating, below
\* every defined one
RatingAtLeast(x, y) == y = NULL \/ (x # NULL /\ x >= y)

\* C8 -- Branch A: with at least 10 candidates of tier >= 2 the output is the
\* first 30 of the sorted candidates; adjacent entries have non-increasing
\* tier and, within a tier, non-increasing average_rating, also when some
\* candidates have no average_rating.
C8_BranchAOrdering ==
    \A u \in users :
        (PersonalizedFor(u) /\ Cardinality(PriorityBooks) >= 10) =>
            LET out == response.books IN
            /\ Len(out) = (IF Cardinality(Scored) < 30 THEN Cardinality(Scored) ELSE 30)
            /\ Output \subseteq Scored
            /\ NoRepeat(out)
            /\ \A p \in Scored \ Output : \A q \in Output : ScoreOf(q) >= ScoreOf(p)
            /\ \A i \in 1..(Len(out) - 1) :
                   /\ ScoreOf(out[i]) >= ScoreOf(out[i + 1])
                   /\ ScoreOf(out[i]) = ScoreOf(out[i + 1]) =>
                          RatingAtLeast(books[out[i]].average_rating,
                                        books[out[i + 1]].average_rating)

---------------------------------------------------------------------------
---------------------------------------------------------------------------
\* C10 -- Idempotence: two calls for the same username with no loan or catalog
\* change in between return the same ordered list, also when candidates are
\* equal on every sort key.
C10_Idempotence ==
    [][ ( /\ response.view = "user_recommendations"
          /\ response'.view = "user_recommendations"
          /\ response'.username = response.username
          /\ UNCHANGED <<books, loans, users>> )
        => response'.books = response.books ]_vars

---------------------------------------------------------------------------
\* C4 -- Two borrow requests for the same available book whose storage steps
\* interleave do not both succeed: no book ever has two open loans.
C4_NoDoubleBorrow ==
    \A p \in Pks : Cardinality(OpenLoans(p)) <= 1

---------------------------------------------------------------------------
\* text that is not a valid number
Unparsable(s) == s = "abc"

\* C11 -- A numeric parameter that fails to parse is ignored, never fatal: home
\* with an unparsable min_rating and user_dashboard with an unparsable
\* rating_filter complete and list what the same request without the parameter
\* lists; return_book with an unparsable rating completes the return and
\* leaves user_rating unset.
C11_ParseFailureIgnored ==
    [][ \A x \in {y \in DecimalInputs \cup RatingInputs : Unparsable(y)} :
          /\ \A a \in AvailabilityInputs, t \in TieOrders :
                 Home(x, a, t) =>
                     /\ response'.status = 200
                     /\ \E t2 \in TieOrders : response'.books = HomeBooks("", a, t2)
          /\ \A u \in users :
                 UserDashboard(u, x) =>
                     /\ response'.status = 200
                     /\ response'.history = ReadingHistory(u, "")
          /\ \A b \in BookIdInputs :
                 (ReturnBook("POST", b, x) /\ \E p \in Pks : books[p].book_id = b
                                                              /\ OpenLoans(p) # {}
                                                              /\ BooksWithId(b) = {p}) =>
                     /\ response'.status = 302
                     /\ \E i \in LoanIdx : /\ ~loans[i].is_returned
                                           /\ loans'[i].is_returned
                                           /\ loans'[i].user_rating = NULL ]_vars

---------------------------------------------------------------------------
\* C12 -- Availability of output: every book of a personalized list (Branch A,
\* and both parts of Branch B) has is_available = true in the catalog the
\* call read.
C12_OutputAvailable ==
    \A u \in users :
        PersonalizedFor(u) => \A p \in Output : books[p].is_available

\* a personalized list returned while a book is on loan that the exclusion of
\* read books does not remove
C12_Witness ==
    \E u \in users :
        /\ PersonalizedFor(u)
        /\ Output # {}
        /\ \E p \in Pks : /\ ~books[p].is_available
                          /\ books[p].book_id \notin read_book_ids(u)

---------------------------------------------------------------------------
\* C13 -- Loan lifecycle: a loan is created open, is changed only by its
\* return, and once returned is never changed again (is_returned,
\* returned_date, user_rating) nor deleted, also when two return_book POSTs
\* for the same book interleave.
C13_LoanLifecycle ==
    [][ /\ Len(loans') >= Len(loans)
        /\ \A i \in LoanIdx :
               /\ loans'[i].user = loans[i].user /\ loans'[i].book = loans[i].book
               /\ loans[i].is_returned => loans'[i] = loans[i]
               /\ loans'[i] # loans[i] => loans'[i].is_returned
        /\ \A i \in (Len(loans) + 1)..Len(loans') :
               /\ ~loans'[i].is_returned
               /\ loans'[i].returned_date = NULL
               /\ loans'[i].user_rating = NULL ]_vars

---------------------------------------------------------------------------
\* C14 -- After any borrow_book / return_book request every loan's user_rating
\* is unset or within 0..5, it is unset on every open loan, and only
\* return_book sets it, whatever rating a return_book POST submits.
C14_UserRatingRange ==
    [][ \A i \in 1..Len(loans') :
          /\ loans'[i].user_rating = NULL
                 \/ (loans'[i].user_rating >= 0 /\ loans'[i].user_rating <= 50)
          /\ ~loans'[i].is_returned => loans'[i].user_rating = NULL
          /\ (i > Len(loans) \/ loans'[i].user_rating # loans[i].user_rating) =>
                 \/ loans'[i].user_rating = NULL
                 \/ \E b \in BookIdInputs, x \in RatingInputs : ReturnBook("POST", b, x) ]_vars

---------------------------------------------------------------------------
\* the last call was get_categorized_recommendations(u) and returned lists
CategorizedFor(u) ==
    /\ response.view = "get_categorized_recommendations"
    /\ response.username = u
    /\ response.outcome = "categorized"

\* C15 -- For a user with at least one loan the four lists of
\* get_categorized_recommendations are pairwise disjoint, and every book of
\* same_author_and_publisher / same_author / same_publisher / similar_rating
\* is an eligible candidate that user_recommendations scores 4 / 3 / 2 / 1
\* for the same user and catalog.
C15_CategoriesAreTiers ==
    \A u \in users :
        CategorizedFor(u) =>
            LET prof == Profile(u)
                list == response.categories
            IN  /\ \A j, k \in 1..4 : j # k => Range(list[j]) \cap Range(list[k]) = {}
                /\ \A k \in 1..4 : \A p \in Range(list[k]) :
                       /\ p \in Candidates(prof)
                       /\ ~CaseRaises(prof)
                       /\ PriorityScore(prof, books[p]) = 5 - k

---------------------------------------------------------------------------
\* a borrow request the claim calls rejected: not a POST, a username blank
\* after trimming, or a book that is not available
BorrowRejected(method, book_id, username) ==
    \/ method # "POST"
    \/ Strip(username) = <<>>
    \/ \E p \in Pks : books[p].book_id = book_id /\ ~books[p].is_available

\* a return request the claim calls rejected: not a POST, or a book without an
\* open loan
ReturnRejected(method, book_id) ==
    \/ method # "POST"
    \/ \E p \in Pks : /\ books[p].book_id = book_id
                      /\ \A i \in LoanIdx : loans[i].book = p => loans[i].is_returned

\* C16 -- Rejected requests change nothing: borrow_book for a book that is not
\* available, by a request that is not a POST, or with a blank username, and
\* return_book for a book without an open loan or by a request that is not a
\* POST, leave every Book, Loan and User record as it was: a step that changes
\* a record is the step of no rejected request.
C16_RejectedChangeNothing ==
    [][ \/ UNCHANGED <<books, loans, users>>
        \/ /\ \A m \in Methods, b \in BookIdInputs, u \in UsernameInputs :
                   ~(BorrowRejected(m, b, u) /\ BorrowBook(m, b, u))
           /\ \A m \in Methods, b \in BookIdInputs, x \in RatingInputs :
                   ~(ReturnRejected(m, b) /\ ReturnBook(m, b, x)) ]_vars

\* a borrow request answered with the form again while a book is on loan and
\* another loan has been returned
C16_Witness ==
    /\ response.view = "borrow_book"
    /\ response.outcome \in {"form", "error"}
    /\ \E p \in Pks : ~books[p].is_available
    /\ \E i \in LoanIdx : loans[i].is_returned

====
